---------------------------- MODULE Spec2Model ----------------------------
(***************************************************************************)
(* Genetic melody harmonizer: the evolutionary loop of                     *)
(* GeneticMelodyHarmonizer.generate and the FitnessEvaluator with its nine *)
(* metrics (geneticmelodyjazzharmonizer.py, metrics.py).                   *)
(*                                                                         *)
(* Conventions.                                                            *)
(*  - Python lists are TLA+ sequences; At(s, i) reads Python index i.      *)
(*  - A chord sequence is a mutable Python list, so the model keeps a heap *)
(*    of list objects; population, parents, new_population, child1 and     *)
(*    child2 hold references (heap indices), as the Python names do.       *)
(*  - Scores are Python floats built from small integer ratios; the model  *)
(*    computes them as exact rationals <<numerator, denominator>>.         *)
(*  - random.choices is the standard library's of Python 3.9 and later,    *)
(*    which raises ValueError when the weights add up to 0 or less.        *)
(*  - A raised exception is the record [err |-> <exception name>].         *)
(*  - The chord name written E-degree-7 in geneticmelodyjazzharmonizer.py  *)
(*    (bytes 45 C2 BA 37) is "Eo7" here; the name written in metrics.py    *)
(*    line 207 (bytes 45 C3 82 C2 BA 37, a different string) is "EAo7".    *)
(***************************************************************************)
EXTENDS Integers, Sequences, FiniteSets, TLC

VARIABLES
    melody_data,        \* MelodyData: [notes, duration, number_of_bars]
    chords,             \* GeneticMelodyHarmonizer.chords
    population_size,    \* GeneticMelodyHarmonizer.population_size
    mutation_rate,      \* GeneticMelodyHarmonizer.mutation_rate, in halves
    weights,            \* FitnessEvaluator.weights: metric name -> rational
    generations,        \* the argument of generate()
    heap,               \* the chord-sequence list objects, by reference
    population,         \* self._population: references
    parents,            \* generate's / _create_new_population's parents
    new_population,     \* _create_new_population's new_population
    child1,             \* _create_new_population's child1 (0: unbound)
    child2,             \* _create_new_population's child2 (0: unbound)
    i,                  \* _create_new_population's loop index
    gen,                \* iterations of generate's loop completed
    fitness_values,     \* _select_parents's fitness_values
    result,             \* what generate() returned (0: nothing)
    error,              \* the exception that ended generate() ("": none)
    pc,                 \* where generate() stands
    sequence,           \* the chord_sequence passed to a metric's calculate
    scores,             \* what each metric's calculate returned for it
    walk                \* ChordMelodyCongruence.calculate's loop variables

config == <<melody_data, chords, population_size, mutation_rate, weights,
            generations>>
vars == <<melody_data, chords, population_size, mutation_rate, weights,
          generations, heap, population, parents, new_population, child1,
          child2, i, gen, fitness_values, result, error, pc, sequence,
          scores, walk>>

(* the variables of a direct call of a metric, which generate() leaves be *)
metric_vars == <<sequence, scores, walk>>

(* the variables of generate(), which a direct call of a metric leaves be *)
search_vars == <<heap, population, parents, new_population, child1, child2,
                 i, gen, fitness_values, result, error>>

---------------------------------------------------------------------------
(* Python list helpers *)

At(s, k) == s[k + 1]

Range(n) == 0 .. (n - 1)

Elements(s) == {s[k] : k \in 1 .. Len(s)}

Slice(s, from, to) == SubSeq(s, from + 1, to)

RECURSIVE SumOver(_, _)
SumOver(f, S) ==
    IF S = {} THEN 0
    ELSE LET x == CHOOSE y \in S : TRUE IN f[x] + SumOver(f, S \ {x})

---------------------------------------------------------------------------
(* Exact rationals standing for the floats of the metrics *)

Abs(x) == IF x < 0 THEN -x ELSE x

RECURSIVE GCD(_, _)
GCD(a, b) == IF b = 0 THEN a ELSE GCD(b, a % b)

Rat(n, d) ==
    LET s == IF d < 0 THEN -1 ELSE 1
        g == GCD(Abs(n), Abs(d))
    IN  <<(s * n) \div g, (s * d) \div g>>

RatZero == <<0, 1>>
RatOne == <<1, 1>>

RatAdd(p, q) == Rat(p[1] * q[2] + q[1] * p[2], p[2] * q[2])
RatMul(p, q) == Rat(p[1] * q[1], p[2] * q[2])
RatScale(k, p) == Rat(k * p[1], p[2])
RatLess(p, q) == p[1] * q[2] < q[1] * p[2]
RatLeq(p, q) == p[1] * q[2] <= q[1] * p[2]

(* A value or an exception *)
Ok(v) == [err |-> "", val |-> v]
Raise(e) == [err |-> e, val |-> RatZero]

(* Python's n / d on numbers *)
Div(n, d) == IF d = 0 THEN Raise("ZeroDivisionError") ELSE Ok(Rat(n, d))

---------------------------------------------------------------------------
(* The tables of main() *)

twinkle_twinkle_melody ==
    << <<"C5", 1>>, <<"C5", 1>>, <<"G5", 1>>, <<"G5", 1>>,
       <<"A5", 1>>, <<"A5", 1>>, <<"G5", 2>>,
       <<"F5", 1>>, <<"F5", 1>>, <<"E5", 1>>, <<"E5", 1>>,
       <<"D5", 1>>, <<"D5", 1>>, <<"C5", 2>>,
       <<"G5", 1>>, <<"G5", 1>>, <<"F5", 1>>, <<"F5", 1>>,
       <<"E5", 1>>, <<"E5", 1>>, <<"D5", 2>>,
       <<"G5", 1>>, <<"G5", 1>>, <<"F5", 1>>, <<"F5", 1>>,
       <<"E5", 1>>, <<"E5", 1>>, <<"D5", 2>>,
       <<"C5", 1>>, <<"C5", 1>>, <<"G5", 1>>, <<"G5", 1>>,
       <<"A5", 1>>, <<"A5", 1>>, <<"G5", 2>>,
       <<"F5", 1>>, <<"F5", 1>>, <<"E5", 1>>, <<"E5", 1>>,
       <<"D5", 1>>, <<"D5", 1>>, <<"C5", 2>> >>

default_weights ==
    [ChordMelodyCongruence |-> <<24, 100>>,
     ChordVariety |-> <<8, 100>>,
     HarmonicFlow |-> <<18, 100>>,
     FunctionalHarmony |-> <<10, 100>>,
     VoiceLeading |-> <<2, 100>>,
     ChordRepetitions |-> <<6, 100>>,
     NonDiatonicChords |-> <<6, 100>>,
     FunctionalProgressions |-> <<25, 100>>,
     ParallelFifths |-> <<1, 100>>]

chord_mappings ==
    [Cmaj7 |-> <<"C", "E", "G", "B">>,
     Dm7 |-> <<"D", "F", "A", "C">>,
     Em7 |-> <<"E", "G", "B", "D">>,
     Fmaj7 |-> <<"F", "A", "C", "E">>,
     G7 |-> <<"G", "B", "D", "F">>,
     Am7 |-> <<"A", "C", "E", "G">>,
     Bm7b5 |-> <<"B", "D", "F", "A">>,
     C7 |-> <<"C", "E", "G", "Bb">>,
     D7 |-> <<"D", "F#", "A", "C">>,
     E7 |-> <<"E", "G#", "B", "D">>,
     A7 |-> <<"A", "C#", "E", "G">>,
     Dm7b5 |-> <<"D", "F", "Ab", "C">>,
     Eo7 |-> <<"E", "G", "Bb", "Db">>,
     Gmin7 |-> <<"G", "Bb", "D", "F">>]

preferred_transitions ==
    [Cmaj7 |-> <<"Em7", "Fmaj7", "Am7", "C7", "E7", "A7", "Eo7">>,
     Dm7 |-> <<"G7", "Am7", "Bm7b5", "D7">>,
     Em7 |-> <<"Am7", "A7", "Eo7", "Gmin7">>,
     Fmaj7 |-> <<"Cmaj7", "Em7", "G7", "Bm7b5", "D7", "E7", "Dm7b5">>,
     G7 |-> <<"Cmaj7", "Am7", "Em7">>,
     Am7 |-> <<"Dm7", "Fmaj7", "Gmin7", "Dm7b5">>,
     Bm7b5 |-> <<"Em7", "E7">>,
     C7 |-> <<"Fmaj7">>,
     D7 |-> <<"G7">>,
     E7 |-> <<"Am7">>,
     A7 |-> <<"Dm7">>,
     Dm7b5 |-> <<"Cmaj7", "Em7">>,
     Eo7 |-> <<"Dm7", "Fmaj7">>,
     Gmin7 |-> <<"C7", "Eo7">>]

chords_with_parallel_fifths ==
    { {"Cmaj7", "Dm7"}, {"Cmaj7", "D7"}, {"Dm7", "Em7"}, {"Dm7", "E7"},
      {"Em7", "D7"}, {"Am7", "Bm7b5"}, {"Bm7b5", "Cmaj7"}, {"Bm7b5", "C7"},
      {"D7", "E7"} }

common_progressions ==
    { <<"Dm7", "G7", "Cmaj7">>, <<"Fmaj7", "Dm7b5", "Cmaj7">>,
      <<"Em7", "A7", "Dm7">>, <<"Cmaj7", "Eo7", "Dm7">>,
      <<"Fmaj7", "Bm7b5", "Em7">>, <<"Fmaj7", "Bm7b5", "E7">>,
      <<"Gmin7", "C7", "Fmaj7">>, <<"Am7", "D7", "G7">>,
      <<"Am7", "Dm7", "G7">>, <<"Bm7b5", "E7", "Am7">>,
      <<"Bm7b5", "Em7", "Am7">> }

(* pitch[0]: the first character of a pitch name of the melody *)
PitchLetter(pitch) ==
    CASE pitch = "C5" -> "C"
      [] pitch = "D5" -> "D"
      [] pitch = "E5" -> "E"
      [] pitch = "F5" -> "F"
      [] pitch = "G5" -> "G"
      [] pitch = "A5" -> "A"

(* MelodyData.__post_init__ *)
MelodyData(notes) ==
    LET duration == SumOver([k \in 1 .. Len(notes) |-> notes[k][2]],
                            1 .. Len(notes))
    IN  [notes |-> notes, duration |-> duration,
         number_of_bars |-> duration \div 4]


---------------------------------------------------------------------------
(* metrics.py: the nine calculate methods *)

(* the bar length a chord is given: "bar_duration < 4" *)
BarLength == 4

(* Variant of NotesLeftInBar: a chord is given half a bar, as two chords *)
(* are generated for each bar                                           *)
NotesLeftInHalfBar(melody_index, bar_duration) ==
    /\ bar_duration < BarLength \div 2
    /\ melody_index < Len(melody_data.notes)

(* the while condition of ChordMelodyCongruence.calculate *)
NotesLeftInBar(melody_index, bar_duration) ==
    bar_duration < BarLength /\ melody_index < Len(melody_data.notes)

(* "pitch[0] in self.chord_mappings[chord]", the score after the note *)
ScoreAfterNote(chord, melody_index, score) ==
    LET note == At(melody_data.notes, melody_index)
    IN  IF PitchLetter(note[1]) \in Elements(chord_mappings[chord])
        THEN score + note[2]
        ELSE score

(* ChordMelodyCongruence.calculate's two nested loops: chord number c, the *)
(* melody index, the duration given to chord c so far, the score so far.   *)
RECURSIVE CongruenceWalk(_, _, _, _, _)
CongruenceWalk(chord_sequence, c, melody_index, bar_duration, score) ==
    IF c >= Len(chord_sequence) THEN score
    ELSE IF NotesLeftInBar(melody_index, bar_duration)
    THEN CongruenceWalk(chord_sequence, c, melody_index + 1,
                        bar_duration + At(melody_data.notes, melody_index)[2],
                        ScoreAfterNote(At(chord_sequence, c), melody_index,
                                       score))
    ELSE CongruenceWalk(chord_sequence, c + 1, melody_index, 0, score)

ChordMelodyCongruence(chord_sequence) ==
    Div(CongruenceWalk(chord_sequence, 0, 0, 0, 0), melody_data.duration)

ChordVariety(chord_sequence) ==
    Div(Cardinality(Elements(chord_sequence)),
        Cardinality(DOMAIN chord_mappings))

HarmonicFlow(chord_sequence) ==
    LET total_transitions == Len(chord_sequence) - 1
        correct_transition_score == Div(1, total_transitions)
        correct == {k \in Range(total_transitions) :
                       At(chord_sequence, k + 1) \in
                         Elements(preferred_transitions[At(chord_sequence, k)])}
    IN  IF correct_transition_score.err # "" THEN correct_transition_score
        ELSE Ok(RatScale(Cardinality(correct), correct_transition_score.val))

FunctionalHarmony(chord_sequence) ==
    LET n == Len(chord_sequence)
        rules == (IF At(chord_sequence, 0) \in {"Cmaj7", "Fmaj7"}
                  THEN 1 ELSE 0)
               + (IF At(chord_sequence, n - 1) \in {"Cmaj7"} THEN 1 ELSE 0)
               + (IF "Fmaj7" \in Elements(chord_sequence)
                     /\ "G7" \in Elements(chord_sequence) THEN 1 ELSE 0)
    IN  IF n = 0 THEN Raise("IndexError") ELSE Ok(Rat(rules, 3))

VoiceLeading(chord_sequence) ==
    LET total_transitions == Len(chord_sequence) - 1
        total_notes == 4 * total_transitions
        shared_note_score == Div(1, total_notes)
        shared == [k \in Range(total_transitions) |->
                     LET current_chord == chord_mappings[At(chord_sequence, k)]
                         next_chord == chord_mappings[At(chord_sequence, k + 1)]
                     IN  Cardinality({j \in 1 .. Len(current_chord) :
                                current_chord[j] \in Elements(next_chord)})]
    IN  IF shared_note_score.err # "" THEN shared_note_score
        ELSE Ok(RatScale(SumOver(shared, Range(total_transitions)),
                         shared_note_score.val))

ChordRepetitions(chord_sequence) ==
    LET total_transitions == Len(chord_sequence) - 2
        same_chord_penalty == Div(-1, total_transitions)
        next_same == {k \in Range(total_transitions) :
                        At(chord_sequence, k) = At(chord_sequence, k + 1)}
        second_same == {k \in Range(total_transitions) :
                          At(chord_sequence, k) = At(chord_sequence, k + 2)}
    IN  IF same_chord_penalty.err # "" THEN same_chord_penalty
        ELSE Ok(RatAdd(RatOne,
                  RatScale(Cardinality(next_same) + Cardinality(second_same),
                           same_chord_penalty.val)))

FunctionalProgressions(chord_sequence) ==
    LET total_transitions == Len(chord_sequence) - 2
        common_progression_score == Div(3, total_transitions)
        found == {k \in Range(total_transitions) :
                    Slice(chord_sequence, k, k + 3) \in common_progressions}
    IN  IF common_progression_score.err # "" THEN common_progression_score
        ELSE Ok(RatScale(Cardinality(found), common_progression_score.val))

non_diatonic_chords == {"C7", "D7", "E7", "A7", "Dm7b5", "EAo7", "Gmin7"}

NonDiatonicChords(chord_sequence) ==
    LET total_chords == Len(chord_sequence)
        non_diationic_chord_score == Div(1, total_chords)
        found == {k \in Range(total_chords) :
                    At(chord_sequence, k) \in non_diatonic_chords}
    IN  IF non_diationic_chord_score.err # "" THEN non_diationic_chord_score
        ELSE Ok(RatScale(Cardinality(found), non_diationic_chord_score.val))

ParallelFifths(chord_sequence) ==
    LET total_transitions == Len(chord_sequence) - 1
        parallel_fifth_penalty == Div(-1, total_transitions)
        found == {k \in Range(total_transitions) :
                    {At(chord_sequence, k), At(chord_sequence, k + 1)}
                        \in chords_with_parallel_fifths}
    IN  IF parallel_fifth_penalty.err # "" THEN parallel_fifth_penalty
        ELSE Ok(RatAdd(RatOne, RatScale(Cardinality(found),
                                        parallel_fifth_penalty.val)))

---------------------------------------------------------------------------
(* FitnessEvaluator *)

metric_classes ==
    <<"ChordMelodyCongruence", "ChordVariety", "HarmonicFlow",
      "FunctionalHarmony", "VoiceLeading", "ChordRepetitions",
      "FunctionalProgressions", "NonDiatonicChords", "ParallelFifths">>

calculate(metric_name, chord_sequence) ==
    CASE metric_name = "ChordMelodyCongruence" ->
             ChordMelodyCongruence(chord_sequence)
      [] metric_name = "ChordVariety" -> ChordVariety(chord_sequence)
      [] metric_name = "HarmonicFlow" -> HarmonicFlow(chord_sequence)
      [] metric_name = "FunctionalHarmony" -> FunctionalHarmony(chord_sequence)
      [] metric_name = "VoiceLeading" -> VoiceLeading(chord_sequence)
      [] metric_name = "ChordRepetitions" -> ChordRepetitions(chord_sequence)
      [] metric_name = "FunctionalProgressions" ->
             FunctionalProgressions(chord_sequence)
      [] metric_name = "NonDiatonicChords" -> NonDiatonicChords(chord_sequence)
      [] metric_name = "ParallelFifths" -> ParallelFifths(chord_sequence)

(* self.weights.get(metric_name, 0) *)
metric_weight(metric_name) ==
    IF metric_name \in DOMAIN weights THEN weights[metric_name] ELSE RatZero

(* evaluate's loop from metric number k on, total_score so far; the first *)
(* calculate that raises ends it.                                         *)
RECURSIVE EvaluateFrom(_, _, _)
EvaluateFrom(chord_sequence, k, total_score) ==
    IF k > Len(metric_classes) THEN Ok(total_score)
    ELSE LET metric_score == calculate(metric_classes[k], chord_sequence)
         IN  IF metric_score.err # "" THEN metric_score
             ELSE EvaluateFrom(chord_sequence, k + 1,
                      RatAdd(total_score,
                             RatMul(metric_score.val,
                                    metric_weight(metric_classes[k]))))

evaluate(chord_sequence) == EvaluateFrom(chord_sequence, 1, RatZero)

(* max(chord_sequences, key=self.evaluate) over the keys already computed: *)
(* the Python index of the item kept, scanning from index k with the item  *)
(* at index best kept so far; a later item replaces it only when its key   *)
(* is strictly greater.                                                    *)
(* Variant of MaxFrom: a later item of equal key replaces the kept one *)
RECURSIVE MaxFromKeepingLast(_, _, _)
MaxFromKeepingLast(keys, k, best) ==
    IF k >= Len(keys) THEN best
    ELSE MaxFromKeepingLast(keys, k + 1,
                 IF RatLeq(At(keys, best), At(keys, k)) THEN k ELSE best)

RECURSIVE MaxFrom(_, _, _)
MaxFrom(keys, k, best) ==
    IF k >= Len(keys) THEN best
    ELSE MaxFrom(keys, k + 1,
                 IF RatLess(At(keys, best), At(keys, k)) THEN k ELSE best)

---------------------------------------------------------------------------
(* random.choices(population, weights=fitness_values, k=...) *)

(* itertools.accumulate(weights) *)
RECURSIVE Accumulate(_, _)
Accumulate(ws, k) ==
    IF k = 0 THEN <<>>
    ELSE IF k = 1 THEN <<ws[1]>>
    ELSE LET before == Accumulate(ws, k - 1)
         IN  Append(before, RatAdd(before[k - 1], ws[k]))

(* bisect.bisect_right(a, x, lo, hi) *)
RECURSIVE Bisect(_, _, _, _)
Bisect(a, x, lo, hi) ==
    IF lo >= hi THEN lo
    ELSE LET mid == (lo + hi) \div 2
         IN  IF RatLess(x, At(a, mid)) THEN Bisect(a, x, lo, mid)
             ELSE Bisect(a, x, mid + 1, hi)

(* The Python indices one draw can return: bisect(cum_weights,            *)
(* random() * total, 0, n - 1) for random() in [0, 1).  The outcome only  *)
(* depends on which cumulative weights the point is below, so the points  *)
(* 0 and each cumulative weight in [0, total) stand for all of them.      *)
(* ValueError: "Total of weights must be greater than zero".              *)
RandomChoices(fitness) ==
    LET n == Len(fitness)
        cum_weights == Accumulate(fitness, n)
        total == cum_weights[n]
        points == {RatZero} \cup
                  {cum_weights[k] : k \in {j \in 1 .. n :
                       RatLeq(RatZero, cum_weights[j])
                       /\ RatLess(cum_weights[j], total)}}
    IN  IF RatLeq(total, RatZero) THEN [err |-> "ValueError", val |-> {}]
        ELSE [err |-> "",
              val |-> {Bisect(cum_weights, x, 0, n - 1) : x \in points}]

---------------------------------------------------------------------------
(* GeneticMelodyHarmonizer *)

(* random.random(), in halves: a float of [0, 1) below or not below 1/2 *)
RandomDraws == {0, 1}

(* random.randint(1, len(parent1) - 1) *)
CutIndices(parent1) == 1 .. (Len(parent1) - 1)

(* Variant of OnePointCut: parent2[cut_index + 1:] *)
OnePointCutSkipping(parent1, parent2, cut_index) ==
    Slice(parent1, 0, cut_index)
        \o Slice(parent2, cut_index + 1, Len(parent2))

(* parent1[:cut_index] + parent2[cut_index:] *)
OnePointCut(parent1, parent2, cut_index) ==
    Slice(parent1, 0, cut_index) \o Slice(parent2, cut_index, Len(parent2))

(* Variant of _crossover: parent1 is overwritten and returned *)
_crossover_in_place(h, parent1, parent2, cut_index) ==
    [heap |-> [h EXCEPT ![parent1] =
                   OnePointCut(h[parent1], h[parent2], cut_index)],
     ref |-> parent1]

(* _crossover on the heap h: the child is a new list object *)
_crossover(h, parent1, parent2, cut_index) ==
    [heap |-> Append(h, OnePointCut(h[parent1], h[parent2], cut_index)),
     ref |-> Len(h) + 1]

(* Variant of MutationDrawn: random.random() <= self.mutation_rate *)
MutationDrawnInclusive(r) == r <= mutation_rate

(* random.random() < self.mutation_rate *)
MutationDrawn(r) == r < mutation_rate

(* Variant of _mutate: the new chord is the first preferred successor of *)
(* the chord drawn from self.chords                                      *)
_mutate_to_successor(h, chord_sequence, r, mutation_index, chord) ==
    IF MutationDrawn(r)
    THEN [h EXCEPT ![chord_sequence][mutation_index + 1] =
                       preferred_transitions[chord][1]]
    ELSE h

(* _mutate on the heap h: the list object is changed in place and the *)
(* same reference is returned                                         *)
_mutate(h, chord_sequence, r, mutation_index, chord) ==
    IF MutationDrawn(r)
    THEN [h EXCEPT ![chord_sequence][mutation_index + 1] = chord]
    ELSE h

(* the k of random.choices in _select_parents *)
NumberOfParents == population_size

(* Variant of PairStep: range(0, self.population_size) *)
PairStepByOne == i + 1

(* range(0, self.population_size, 2): the step from one pair to the next *)
PairStep == i + 2

(* The values a list of references denotes *)
Deref(refs) == [k \in 1 .. Len(refs) |-> heap[refs[k]]]

---------------------------------------------------------------------------
(* The inputs explored *)

MaxGenerations == 2

(* four quarter notes, one bar; and the first phrase of the tune, two bars *)
one_bar_melody == SubSeq(twinkle_twinkle_melody, 1, 4)
two_bar_melody == SubSeq(twinkle_twinkle_melody, 1, 7)
Melodies == {one_bar_melody, two_bar_melody}

empty_weights == [name \in {} |-> RatZero]
repetition_weights ==
    [ChordRepetitions |-> RatOne, FunctionalHarmony |-> RatOne]
WeightMappings == {default_weights, empty_weights, repetition_weights}

(* mutation_rate 0 and 1/2, in halves *)
MutationRates == {0, 1}

(* <<population_size, chords>>: the odd size 3 comes with a one-chord list *)
Searches ==
    { <<1, <<"Cmaj7", "G7">> >>,
      <<2, <<"Cmaj7", "G7">> >>,
      <<3, <<"Cmaj7">> >> }

---------------------------------------------------------------------------
(* generate() *)

Init ==
    /\ melody_data \in {MelodyData(notes) : notes \in Melodies}
    /\ \E search \in Searches :
          /\ population_size = search[1]
          /\ chords = search[2]
    /\ mutation_rate \in MutationRates
    /\ weights \in WeightMappings
    /\ generations \in 0 .. MaxGenerations
    /\ heap = <<>>
    /\ population = <<>>
    /\ parents = <<>>
    /\ new_population = <<>>
    /\ child1 = 0
    /\ child2 = 0
    /\ i = 0
    /\ gen = 0
    /\ fitness_values = <<>>
    /\ result = 0
    /\ error = ""
    /\ pc = "start"
    /\ sequence = <<>>
    /\ scores = <<>>
    /\ walk = <<>>

(* self._population = self._initialise_population() *)
_initialise_population ==
    /\ pc = "start"
    /\ \E sequences \in [1 .. population_size ->
                           [1 .. 2 * melody_data.number_of_bars ->
                                Elements(chords)]] :
          heap' = sequences
    /\ population' = [k \in 1 .. population_size |-> k]
    /\ pc' = "loop"
    /\ UNCHANGED metric_vars
    /\ UNCHANGED <<config, parents, new_population, child1, child2, i, gen,
                   fitness_values, result, error>>

(* The exception of the first evaluate that raises, "" when none does *)
FirstError(evals) ==
    LET failing == {k \in 1 .. Len(evals) : evals[k].err # ""}
    IN  IF failing = {} THEN ""
        ELSE evals[CHOOSE k \in failing : \A j \in failing : k <= j].err

(* parents = self._select_parents(), up to new_population = [] at the *)
(* start of _create_new_population                                    *)
_select_parents ==
    /\ pc = "loop"
    /\ gen < generations
    /\ LET evals == [k \in 1 .. Len(population) |->
                        evaluate(heap[population[k]])]
           values == [k \in 1 .. Len(population) |-> evals[k].val]
           chosen == RandomChoices(values)
       IN  IF FirstError(evals) # ""
           THEN /\ error' = FirstError(evals)
                /\ pc' = "failed"
                /\ UNCHANGED <<parents, fitness_values>>
           ELSE IF chosen.err # ""
           THEN /\ error' = chosen.err
                /\ pc' = "failed"
                /\ fitness_values' = values
                /\ UNCHANGED parents
           ELSE /\ \E picks \in [1 .. NumberOfParents -> chosen.val] :
                      parents' = [k \in 1 .. NumberOfParents |->
                                     At(population, picks[k])]
                /\ fitness_values' = values
                /\ pc' = "create"
                /\ UNCHANGED error
    /\ i' = 0
    /\ new_population' = <<>>
    /\ UNCHANGED metric_vars
    /\ UNCHANGED <<config, heap, population, child1, child2, gen, result>>

(* _create_new_population, one pair: the two _crossover calls *)
CrossoverPair ==
    /\ pc = "create"
    /\ i < population_size
    /\ IF i + 1 >= Len(parents)
       THEN /\ error' = "IndexError"
            /\ pc' = "failed"
            /\ UNCHANGED <<heap, child1, child2>>
       ELSE \E cut1 \in CutIndices(heap[At(parents, i)]),
               cut2 \in CutIndices(heap[At(parents, i + 1)]) :
              LET first == _crossover(heap, At(parents, i),
                                      At(parents, i + 1), cut1)
                  second == _crossover(first.heap, At(parents, i + 1),
                                       At(parents, i), cut2)
              IN  /\ heap' = second.heap
                  /\ child1' = first.ref
                  /\ child2' = second.ref
                  /\ pc' = "mutate1"
                  /\ UNCHANGED error
    /\ UNCHANGED metric_vars
    /\ UNCHANGED <<config, population, parents, new_population, i, gen,
                   fitness_values, result>>

(* child1 = self._mutate(child1) *)
MutateChild1 ==
    /\ pc = "mutate1"
    /\ \E r \in RandomDraws,
          mutation_index \in Range(Len(heap[child1])),
          chord \in Elements(chords) :
          heap' = _mutate(heap, child1, r, mutation_index, chord)
    /\ pc' = "mutate2"
    /\ UNCHANGED metric_vars
    /\ UNCHANGED <<config, population, parents, new_population, child1,
                   child2, i, gen, fitness_values, result, error>>

(* child2 = self._mutate(child2); new_population.extend([child1, child2]) *)
MutateChild2 ==
    /\ pc = "mutate2"
    /\ \E r \in RandomDraws,
          mutation_index \in Range(Len(heap[child2])),
          chord \in Elements(chords) :
          heap' = _mutate(heap, child2, r, mutation_index, chord)
    /\ new_population' = new_population \o <<child1, child2>>
    /\ i' = PairStep
    /\ pc' = "create"
    /\ UNCHANGED metric_vars
    /\ UNCHANGED <<config, population, parents, child1, child2, gen,
                   fitness_values, result, error>>

(* return new_population; self._population = new_population.  The lists   *)
(* of the old population are unreachable from here on, and parents,       *)
(* fitness_values, child1 and child2 are written before they are read     *)
(* again: the live lists are renumbered from 1 and the rest is dropped.   *)
ReplacePopulation ==
    /\ pc = "create"
    /\ i >= population_size
    /\ heap' = Deref(new_population)
    /\ population' = [k \in 1 .. Len(new_population) |->
                        CHOOSE j \in 1 .. Len(new_population) :
                          /\ new_population[j] = new_population[k]
                          /\ \A m \in 1 .. (j - 1) :
                                new_population[m] # new_population[k]]
    /\ gen' = gen + 1
    /\ parents' = <<>>
    /\ new_population' = <<>>
    /\ child1' = 0
    /\ child2' = 0
    /\ i' = 0
    /\ fitness_values' = <<>>
    /\ pc' = "loop"
    /\ UNCHANGED metric_vars
    /\ UNCHANGED <<config, result, error>>

(* get_chord_sequence_with_highest_fitness(self._population); return *)
get_chord_sequence_with_highest_fitness ==
    /\ pc = "loop"
    /\ gen >= generations
    /\ LET evals == [k \in 1 .. Len(population) |->
                        evaluate(heap[population[k]])]
           keys == [k \in 1 .. Len(population) |-> evals[k].val]
       IN  IF FirstError(evals) # ""
           THEN /\ error' = FirstError(evals)
                /\ pc' = "failed"
                /\ UNCHANGED result
           ELSE /\ result' = At(population, MaxFrom(keys, 1, 0))
                /\ pc' = "done"
                /\ UNCHANGED error
    /\ UNCHANGED metric_vars
    /\ UNCHANGED <<config, heap, population, parents, new_population, child1,
                   child2, i, gen, fitness_values>>

Next ==
    \/ _initialise_population
    \/ _select_parents
    \/ CrossoverPair
    \/ MutateChild1
    \/ MutateChild2
    \/ ReplacePopulation
    \/ get_chord_sequence_with_highest_fitness

Spec == Init /\ [][Next]_vars

---------------------------------------------------------------------------
(* A metric's calculate(chord_sequence), called on its own on an evaluator *)
(* built as main() builds it                                               *)

(* list(chord_mappings.keys()), in the order main() writes the mapping *)
default_chords ==
    <<"Cmaj7", "Dm7", "Em7", "Fmaj7", "G7", "Am7", "Bm7b5", "C7", "D7", "E7",
      "A7", "Dm7b5", "Eo7", "Gmin7">>

(* the longest argument drawn from the whole vocabulary *)
MaxVocabularyLen == 2

(* the longest argument drawn from three chords of the vocabulary *)
MaxLen == 4

ThreeChords == {"Cmaj7", "C7", "Eo7"}

SequencesUpTo(n, S) == UNION {[1 .. k -> S] : k \in 0 .. n}

MetricArguments ==
    SequencesUpTo(MaxVocabularyLen, Elements(default_chords))
        \cup SequencesUpTo(MaxLen, ThreeChords)

(* generate() is not running *)
SearchIdle ==
    /\ population_size = 0
    /\ mutation_rate = 0
    /\ generations = 0
    /\ heap = <<>>
    /\ population = <<>>
    /\ parents = <<>>
    /\ new_population = <<>>
    /\ child1 = 0
    /\ child2 = 0
    /\ i = 0
    /\ gen = 0
    /\ fitness_values = <<>>
    /\ result = 0
    /\ error = ""

MetricInit ==
    /\ melody_data = MelodyData(two_bar_melody)
    /\ chords = default_chords
    /\ weights = default_weights
    /\ SearchIdle
    /\ sequence \in MetricArguments
    /\ scores = <<>>
    /\ walk = <<>>
    /\ pc = "call"

(* metric.calculate(chord_sequence), for any one of the nine metrics *)
CallMetric ==
    /\ pc = "call"
    /\ \E metric_name \in Elements(metric_classes) :
          scores' = [metric |-> metric_name,
                     value |-> calculate(metric_name, sequence)]
    /\ pc' = "returned"
    /\ UNCHANGED <<config, search_vars, sequence, walk>>

MetricNext == CallMetric

MetricSpec == MetricInit /\ [][MetricNext]_vars

---------------------------------------------------------------------------
(* ChordMelodyCongruence.calculate(chord_sequence), step by step, on the  *)
(* chord sequences of the length the generator gives them                 *)

(* the most notes of a melody *)
MaxNotes == 5

WalkPitches == {"C5", "D5"}
NoteDurations == {1, 2}

(* melodies of one note or more with positive durations *)
WalkMelodies ==
    UNION {[1 .. n -> WalkPitches \X NoteDurations] : n \in 1 .. MaxNotes}

(* C is a note of Cmaj7 only, D a note of G7 only *)
walk_chords == <<"Cmaj7", "G7">>

(* score, melody_index = 0, 0; the for loop is about to take chord 0 *)
WalkInit ==
    /\ melody_data \in {MelodyData(notes) : notes \in WalkMelodies}
    /\ chords = walk_chords
    /\ weights = default_weights
    /\ SearchIdle
    /\ sequence \in [1 .. 2 * melody_data.number_of_bars -> Elements(chords)]
    /\ scores = <<>>
    /\ walk = [c |-> 0, melody_index |-> 0, bar_duration |-> 0, score |-> 0]
    /\ pc = "for"

(* for chord in chord_sequence: bar_duration = 0 *)
TakeChord ==
    /\ pc = "for"
    /\ walk.c < Len(sequence)
    /\ walk' = [walk EXCEPT !.bar_duration = 0]
    /\ pc' = "while"
    /\ UNCHANGED <<config, search_vars, sequence, scores>>

(* one iteration of the while loop *)
ConsumeNote ==
    /\ pc = "while"
    /\ NotesLeftInBar(walk.melody_index, walk.bar_duration)
    /\ walk' = [walk EXCEPT
                   !.score = ScoreAfterNote(At(sequence, walk.c),
                                            walk.melody_index, walk.score),
                   !.bar_duration =
                       walk.bar_duration
                           + At(melody_data.notes, walk.melody_index)[2],
                   !.melody_index = walk.melody_index + 1]
    /\ UNCHANGED <<config, search_vars, sequence, scores, pc>>

(* the while condition is false: on to the next chord *)
LeaveBar ==
    /\ pc = "while"
    /\ ~NotesLeftInBar(walk.melody_index, walk.bar_duration)
    /\ walk' = [walk EXCEPT !.c = walk.c + 1]
    /\ pc' = "for"
    /\ UNCHANGED <<config, search_vars, sequence, scores>>

(* return score / self.melody_data.duration *)
ReturnScore ==
    /\ pc = "for"
    /\ walk.c >= Len(sequence)
    /\ scores' = [metric |-> "ChordMelodyCongruence",
                  value |-> Div(walk.score, melody_data.duration)]
    /\ pc' = "returned"
    /\ UNCHANGED <<config, search_vars, sequence, walk>>

WalkNext ==
    \/ TakeChord
    \/ ConsumeNote
    \/ LeaveBar
    \/ ReturnScore

WalkSpec == WalkInit /\ [][WalkNext]_vars

---------------------------------------------------------------------------
(* Properties *)

SequenceLength == 2 * melody_data.number_of_bars

EvenSize == population_size >= 2 /\ population_size % 2 = 0

InCreation == pc \in {"create", "mutate1", "mutate2"}

(* the fitness of the individual at Python index k of the population *)
FitnessAt(k) == evaluate(heap[At(population, k)]).val

(* The sizes at every point of generate(): the population once          *)
(* initialised, the parents, and the children added so far, which are   *)
(* the lists created after the population, two per pair, in pair order. *)
C1_SizeKept ==
    (EvenSize /\ SequenceLength >= 3) =>
        /\ pc # "start" => Len(population) = population_size
        /\ InCreation =>
              /\ Len(parents) = population_size
              /\ Len(new_population) = i
              /\ new_population = [k \in 1 .. i |-> population_size + k]
(* The step that ends a generation installs the list of children *)
C1_Replaced ==
    (pc = "create" /\ pc' = "loop" /\ EvenSize /\ SequenceLength >= 3) =>
        /\ Len(new_population) = population_size
        /\ [k \in DOMAIN population' |-> heap'[population'[k]]]
              = Deref(new_population)

(* C1: for an even population_size >= 2 and a sequence length >= 3, the    *)
(* population holds exactly population_size individuals once initialised   *)
(* and after every generation; selection returns population_size parents;  *)
(* every pair handled has added exactly two children, in pair order; and   *)
(* the population that replaces the old one is that list of children.      *)
C1_PopulationSize == []C1_SizeKept /\ [][C1_Replaced]_vars

(* C1's case: two generations of an even population have been completed *)
C1_Witness ==
    /\ pc = "loop"
    /\ gen >= 2
    /\ EvenSize
    /\ SequenceLength >= 3
    /\ Len(population) = population_size

C3_OddSizeFailsFirst ==
    (population_size % 2 = 1) =>
        /\ fitness_values = <<>>
        /\ parents = <<>>
        /\ ~InCreation
        /\ pc # "done"
        /\ result = 0

(* C4: for the one-bar melody of four quarter notes and an even            *)
(* population_size, no step of generate() fails, and what it returns is a  *)
(* chord sequence of length 2.                                             *)
C4_OneBarCompletes ==
    (melody_data = MelodyData(one_bar_melody) /\ EvenSize) =>
        /\ pc # "failed"
        /\ pc = "done" => (result # 0 /\ Len(heap[result]) = 2)

(* C5: when every individual of the population has fitness exactly 0, the  *)
(* selection step does not abort the run.                                  *)
C5_AllZeroSelects ==
    (/\ fitness_values # <<>>
     /\ \A k \in DOMAIN fitness_values : fitness_values[k] = RatZero)
        => error = ""

(* C6: every weight handed to the fitness-proportionate sampling that took *)
(* place is non-negative.                                                  *)
C6_WeightsNonNegative ==
    InCreation =>
        \A k \in DOMAIN fitness_values : RatLeq(RatZero, fitness_values[k])

(* C7: once generate() has returned, after exactly `generations`           *)
(* generations, the result is the element of the final population whose    *)
(* fitness is at least that of every element, and among those of maximal   *)
(* fitness it is the one at the lowest index.                              *)
C7_BestOfFinal ==
    pc = "done" =>
        /\ gen = generations
        /\ \E b \in Range(Len(population)) :
              /\ result = At(population, b)
              /\ \A k \in Range(Len(population)) :
                    RatLeq(FitnessAt(k), FitnessAt(b))
              /\ \A k \in Range(b) : RatLess(FitnessAt(k), FitnessAt(b))

(* C7's case: after a generation, two different individuals tie for the *)
(* maximal fitness                                                      *)
C7_Witness ==
    /\ pc = "done"
    /\ gen >= 1
    /\ population_size = 2
    /\ heap[population[1]] # heap[population[2]]
    /\ FitnessAt(0) = FitnessAt(1)

(* child is first[0..c) followed by second[c..len) for a cut index c with *)
(* 1 <= c <= len - 1, and what the claim draws from that                  *)
IsCut(child, first, second) ==
    /\ Len(child) = Len(first)
    /\ \E cut_index \in 1 .. (Len(first) - 1) :
          \A pos \in Range(Len(child)) :
              At(child, pos) = IF pos < cut_index THEN At(first, pos)
                               ELSE At(second, pos)
    /\ At(child, 0) = At(first, 0)
    /\ At(child, Len(child) - 1) = At(second, Len(second) - 1)
    /\ \A pos \in Range(Len(child)) :
          At(child, pos) \in {At(first, pos), At(second, pos)}

(* C8: with mutation_rate = 0, for every pair (A, B) = (parents[2k],       *)
(* parents[2k+1]) already handled, element 2k of the new population is     *)
(* A[0..c1) followed by B[c1..len) and element 2k+1 is B[0..c2) followed   *)
(* by A[c2..len) for cut indices 1 <= c1, c2 <= len - 1; so a child starts *)
(* with its first parent's first chord, ends with its second parent's last *)
(* chord, and holds at each position a chord one of its parents has there. *)
C8_ExactCrossover ==
    (mutation_rate = 0 /\ pc = "create") =>
        \A k \in Range(Len(new_population) \div 2) :
            LET A == heap[At(parents, 2 * k)]
                B == heap[At(parents, 2 * k + 1)]
            IN  /\ IsCut(heap[At(new_population, 2 * k)], A, B)
                /\ IsCut(heap[At(new_population, 2 * k + 1)], B, A)

(* C8's case: a pair of different parents has been crossed without        *)
(* mutation into a child that is neither parent                           *)
C8_Witness ==
    /\ mutation_rate = 0
    /\ pc = "create"
    /\ Len(new_population) = 2
    /\ heap[parents[1]] # heap[parents[2]]
    /\ heap[new_population[1]] \notin {heap[parents[1]], heap[parents[2]]}

(* The child a _mutate step is given, and the other one *)
MutationTarget == IF pc = "mutate1" THEN child1 ELSE child2
OtherChild == IF pc = "mutate1" THEN child2 ELSE child1
(* What a step taken from a _mutate position leaves alone *)
C9_MutateStep ==
    pc \in {"mutate1", "mutate2"} =>
         /\ MutationTarget \notin
               Elements(parents) \cup Elements(population)
                   \cup Elements(new_population) \cup {OtherChild}
         /\ \A ref \in DOMAIN heap \ {MutationTarget} : heap'[ref] = heap[ref]
         /\ [k \in DOMAIN parents |-> heap'[parents[k]]] = Deref(parents)
         /\ [k \in DOMAIN population |-> heap'[population[k]]]
               = Deref(population)
         /\ [k \in DOMAIN new_population |-> heap'[new_population[k]]]
               = Deref(new_population)
         /\ heap'[OtherChild] = heap[OtherChild]

(* C9: a _mutate step changes no list but the child it is given: that     *)
(* child is no list of the parents, of the population or of the new       *)
(* population and is not the other child, and what parents, population,   *)
(* new_population and the other child denote is the same after the step,  *)
(* also when parents holds one individual at several indices.             *)
C9_MutationIsLocal == [][C9_MutateStep]_vars

(* C9's case: selection picked the same individual twice, and the first   *)
(* child, a copy of it, has been changed by its mutation                  *)
C9_Witness ==
    /\ pc = "mutate2"
    /\ population_size = 2
    /\ parents[1] = parents[2]
    /\ heap[child1] # heap[parents[1]]
    /\ heap[child2] = heap[parents[1]]

(* C10: with an empty weight mapping, evaluate returns 0 for every chord  *)
(* sequence the generator has produced, those of length 2 included.       *)
C10_EmptyWeightsZero ==
    (DOMAIN weights = {}) =>
        \A ref \in DOMAIN heap : evaluate(heap[ref]) = Ok(RatZero)

---------------------------------------------------------------------------
(* Properties of the metrics called on their own *)

Returned(metric_name) == pc = "returned" /\ scores.metric = metric_name

(* the positions k, over all adjacent pairs, with chord k = chord k + 1 *)
AdjacentRepeats(s) == {k \in 0 .. Len(s) - 2 : At(s, k) = At(s, k + 1)}

(* the positions k with chord k = chord k + 2 *)
SecondRepeats(s) == {k \in 0 .. Len(s) - 3 : At(s, k) = At(s, k + 2)}

(* C11: for a chord sequence of length n >= 3, ChordRepetitions returns   *)
(* 1 - (R1 + R2) / (n - 2), R1 counting the adjacent pairs of equal       *)
(* chords at all positions 0 .. n-2 and R2 the equal chords two apart at  *)
(* positions 0 .. n-3; so a sequence with an immediate repeat anywhere,   *)
(* its last two positions included, scores strictly below 1.              *)
C11_RepetitionsCounted ==
    (Returned("ChordRepetitions") /\ Len(sequence) >= 3) =>
        LET n == Len(sequence)
            R1 == Cardinality(AdjacentRepeats(sequence))
            R2 == Cardinality(SecondRepeats(sequence))
        IN  /\ scores.value = Ok(Rat((n - 2) - (R1 + R2), n - 2))
            /\ R1 > 0 => RatLess(scores.value.val, RatOne)

(* the pitch classes of C major *)
CMajorScale == {"C", "D", "E", "F", "G", "A", "B"}

(* the chords of the vocabulary with a pitch class outside C major *)
OutsideCMajor ==
    {chord \in Elements(default_chords) :
        \E note \in Elements(chord_mappings[chord]) : note \notin CMajorScale}

(* C12: over the default vocabulary, NonDiatonicChords returns the number  *)
(* of positions holding a non-diatonic chord divided by the length, the    *)
(* non-diatonic chords being the vocabulary chords with a pitch class      *)
(* outside C major: C7, D7, E7, A7, Dm7b5, Eo7 and Gmin7, each occurrence  *)
(* of which contributes 1/length.                                          *)
C12_NonDiatonicFraction ==
    /\ OutsideCMajor = {"C7", "D7", "E7", "A7", "Dm7b5", "Eo7", "Gmin7"}
    /\ (Returned("NonDiatonicChords") /\ Len(sequence) >= 1) =>
          LET positions == {k \in Range(Len(sequence)) :
                               At(sequence, k) \in OutsideCMajor}
          IN  scores.value = Ok(Rat(Cardinality(positions), Len(sequence)))

---------------------------------------------------------------------------
(* Properties of the search, continued *)

(* the chords a lookup in chord_mappings and preferred_transitions finds *)
TableKeys == DOMAIN chord_mappings \cap DOMAIN preferred_transitions

(* C13: at every point of generate(), from the initial population through *)
(* every selection, crossover and mutation, each chord of each chord      *)
(* sequence held, and of the sequence returned, is an element of          *)
(* self.chords; so, the tables covering self.chords, each such chord is a *)
(* key of chord_mappings and of preferred_transitions.                    *)
C13_VocabularyClosure ==
    /\ \A ref \in DOMAIN heap : Elements(heap[ref]) \subseteq Elements(chords)
    /\ pc = "done" =>
          /\ result \in DOMAIN heap
          /\ Elements(heap[result]) \subseteq Elements(chords)
    /\ Elements(chords) \subseteq TableKeys =>
          \A ref \in DOMAIN heap :
              \A k \in Range(Len(heap[ref])) : At(heap[ref], k) \in TableKeys

(* C13's case: in a generation after the first, a child added to the new *)
(* population holds a chord that no list of the population holds, which  *)
(* only a mutation can have written                                      *)
C13_Witness ==
    /\ pc = "create"
    /\ gen >= 1
    /\ \E child \in Elements(new_population) :
          \E k \in Range(Len(heap[child])) :
              \A ref \in Elements(population) :
                  At(heap[child], k) \notin Elements(heap[ref])

---------------------------------------------------------------------------
(* Properties of ChordMelodyCongruence.calculate *)

(* What one step of the walk does with the notes: the melody index stays  *)
(* or moves on by one note, a note consumed goes to the current chord     *)
(* with its whole duration, and the walk leaves a chord only with 4 units *)
(* or more given to it or with no note left.                              *)
C14_WalkStep ==
    /\ walk'.melody_index \in {walk.melody_index, walk.melody_index + 1}
    /\ walk'.melody_index = walk.melody_index + 1 =>
          /\ walk.melody_index < Len(melody_data.notes)
          /\ walk'.c = walk.c
          /\ walk'.bar_duration =
                walk.bar_duration
                    + At(melody_data.notes, walk.melody_index)[2]
    /\ walk'.c # walk.c =>
          /\ walk'.c = walk.c + 1
          /\ \/ walk.bar_duration >= 4
             \/ walk.melody_index = Len(melody_data.notes)

(* The chords after position B find no note left, and what is returned:   *)
(* a score from 0 to 1, equal to the score of every chord sequence of the *)
(* same length 2 * B with the same chords at positions 0 .. B.            *)
C14_WalkBounded ==
    LET B == melody_data.number_of_bars
    IN  /\ walk.melody_index <= Len(melody_data.notes)
        /\ walk.c >= B + 1 => walk.melody_index = Len(melody_data.notes)
        /\ pc = "returned" =>
              /\ scores.value.err = ""
              /\ scores.value = ChordMelodyCongruence(sequence)
              /\ RatLeq(RatZero, scores.value.val)
              /\ RatLeq(scores.value.val, RatOne)
              /\ \A other \in [1 .. 2 * B -> Elements(chords)] :
                    (\A k \in Range(2 * B) :
                        k <= B => At(other, k) = At(sequence, k))
                    => ChordMelodyCongruence(other) = scores.value

===========================================================================
